---- MODULE Spec2Model ----
(***************************************************************************)
(* Model of src/main.py: the guardrail (CustomGuardrail), the Gemini model *)
(* adapter (GeminiModel.generate) and the asynchronous runner (run_agent). *)
(*                                                                         *)
(* A Python str is a sequence of symbols.  A symbol is one character of a  *)
(* query (" " or "a") or one fixed phrase of the program, kept whole: the  *)
(* phrases are only ever concatenated and compared, never cut.             *)
(***************************************************************************)
EXTENDS Naturals, Sequences, FiniteSets

\* ------------------------------------------------------------------ bounds
NumInv == 2          \* run_agent coroutines alive at once
MaxQueryLen == 1     \* characters in a query
MaxMessages == 1     \* entries of prompt["messages"] in a direct generate call

\* ------------------------------------------------------- program constants
max_tokens == 1000                                     \* self.max_tokens
temperature == "0.5"                                   \* self.temperature
model_name == "gemini-2.0-flash"
NOTE == "\nNote: Use web search tool if required."     \* appended by generate
GEMINI_PREFIX == "Gemini API error: "                  \* generate's except
ERR_PREFIX == "Error running agent: "                  \* run_agent's except
EMPTY_MSG == "Error: Query cannot be empty."           \* input_guardrail
weather_instructions == "weather_instructions"
research_instructions == "research_instructions"
WebSearchTool == "WebSearchTool"

\* ------------------------------------------------------------------ strings
Chars == {" ", "a"}

\* the sequences over S of length at most n
RECURSIVE SeqsUpTo(_, _)
SeqsUpTo(S, n) ==
  IF n = 0 THEN {<<>>}
  ELSE LET T == SeqsUpTo(S, n - 1)
       IN T \cup {Append(t, x) : t \in {u \in T : Len(u) = n - 1}, x \in S}

Queries == SeqsUpTo(Chars, MaxQueryLen)

\* s is a contiguous part of t
Contains(t, s) ==
  \E k \in 0..(Len(t) - Len(s)) : SubSeq(t, k + 1, k + Len(s)) = s

StartsWith(t, s) == Len(t) >= Len(s) /\ SubSeq(t, 1, Len(s)) = s

\* str.strip(): drop the leading and the trailing whitespace
RECURSIVE lstrip(_)
lstrip(s) == IF s # <<>> /\ Head(s) = " " THEN lstrip(Tail(s)) ELSE s

RECURSIVE rstrip(_)
rstrip(s) ==
  IF s # <<>> /\ s[Len(s)] = " " THEN rstrip(SubSeq(s, 1, Len(s) - 1)) ELSE s

strip(s) == rstrip(lstrip(s))

\* --------------------------------------------------------------- exceptions
NoExc == [cls |-> "None", msg |-> <<>>]
Exc(c, m) == [cls |-> c, msg |-> m]

\* the classes an `except Exception` clause catches; asyncio.CancelledError
\* derives from BaseException and is not among them
ExceptionClasses == {"Exception", "ValueError", "IndexError", "ConnectionError"}

exceptAnything(cls) == cls # "None"
exceptException(cls) == cls \in ExceptionClasses

\* a call's outcome: a returned value or a raised exception
Return(v) == [ok |-> TRUE, value |-> v, exc |-> NoExc]
Raise(c, m) == [ok |-> FALSE, value |-> <<>>, exc |-> Exc(c, m)]

\* ---------------------------------------------------------- CustomGuardrail
\* input_guardrail's validate: lambda x: bool(x.strip())
validate(x) == strip(x) # <<>>

InputGuardrail ==
  [name |-> "InputValidation",
   description |-> "Ensure the query is not empty",
   error_message |-> <<EMPTY_MSG>>]

\* a guardrail that lets every input through
applyNoRaise(g, input_str) == Return(input_str)

\* CustomGuardrail.apply
apply(g, input_str) ==
  IF ~validate(input_str)
  THEN Raise("ValueError", g.error_message)
  ELSE Return(input_str)

\* -------------------------------------------------------------- GeminiModel
GeminiModel == [model_name |-> model_name,
                max_tokens |-> max_tokens,
                temperature |-> temperature]

\* the tools argument of generate: None, or a container of a Python type
None == [type |-> "NoneType", items |-> <<>>]
List(items) == [type |-> "list", items |-> items]
Tuple(items) == [type |-> "tuple", items |-> items]

ToolArgs == {None, List(<<>>), List(<<WebSearchTool>>),
             Tuple(<<>>), Tuple(<<WebSearchTool>>)}

\* a message of the prompt; has_content is whether the dict has "content"
Message(role, content) ==
  [role |-> role, has_content |-> TRUE, content |-> content]
EmptyDict == [role |-> "", has_content |-> FALSE, content |-> <<>>]

\* bool(tools): None and the empty containers are falsy
truthy(tools) == tools.type # "NoneType" /\ tools.items # <<>>

\* the advisory is added for every tools argument that is not None
toolsAdvisedNotNone(tools) == tools.type # "NoneType"

\* `tools and isinstance(tools, list)`
toolsAdvised(tools) == truthy(tools) /\ tools.type = "list"

\* prompt.get("messages", [{}])[-1].get("content", "")
lastContent(prompt) ==
  LET messages == IF prompt.has_messages THEN prompt.messages
                  ELSE <<EmptyDict>>
  IN IF messages = <<>>
     THEN Raise("IndexError", <<"list index out of range">>)
     ELSE LET last == messages[Len(messages)]
          IN Return(IF last.has_content THEN last.content ELSE <<>>)

\* generate's except clause: every Exception is raised again as a plain
\* Exception whose text is the prefix and str(e)
generate_except(e) ==
  IF exceptException(e.cls)
  THEN Raise("Exception", <<GEMINI_PREFIX>> \o e.msg)
  ELSE [ok |-> FALSE, value |-> <<>>, exc |-> e]

\* generate up to the backend call: the text handed to generate_content
generate_request(prompt, tools) ==
  LET c == lastContent(prompt)
  IN IF ~c.ok THEN generate_except(c.exc)
     ELSE Return(IF toolsAdvised(tools) THEN c.value \o <<NOTE>>
                 ELSE c.value)

\* what the backend does with one request: it answers a text or it raises
BackendTexts == {<<"a">>, <<ERR_PREFIX, EMPTY_MSG>>}
BackendFaults == {<<"network fault">>}
BackendOutcomes ==
  {[kind |-> "text", text |-> t, msg |-> <<>>] : t \in BackendTexts}
  \cup {[kind |-> "raise", text |-> <<>>, msg |-> m] : m \in BackendFaults}

\* generate from the backend's outcome on: the text of
\* {"choices": [{"message": {"content": response.text}}]} or the exception
generate_response(outcome) ==
  IF outcome.kind = "text" THEN Return(outcome.text)
  ELSE generate_except(Exc("ConnectionError", outcome.msg))

\* ------------------------------------------------------------------- agents
AgentIds == {"weather_agent", "research_agent", "other_agent"}

\* weather_agent and research_agent as constructed; other_agent is an agent
\* a caller of run_agent builds with tools and another name
AgentDefs ==
  [id \in AgentIds |->
     CASE id = "weather_agent" ->
            [name |-> "WeatherAssistant", model |-> GeminiModel,
             instructions |-> <<weather_instructions>>, tools |-> List(<<>>)]
       [] id = "research_agent" ->
            [name |-> "ResearchAgent", model |-> GeminiModel,
             instructions |-> <<research_instructions>>,
             tools |-> List(<<WebSearchTool>>)]
       [] id = "other_agent" ->
            [name |-> "ResearchAssistant", model |-> GeminiModel,
             instructions |-> <<>>, tools |-> List(<<WebSearchTool>>)]]

\* Runner.run's prompt: the instructions as a system message when there are
\* any, then the query as the user message
build_conversation(a, q) ==
  [has_messages |-> TRUE,
   messages |-> (IF a.instructions # <<>>
                 THEN <<Message("system", a.instructions)>> ELSE <<>>)
                \o <<Message("user", q)>>]

\* ---------------------------------------------------------------- run_agent
\* the guardrail is applied to every agent that declares tools
guardrailAppliesTools(a) == a.tools.items # <<>>

\* `if agent.name == "ResearchAgent"`
guardrailApplies(a) == a.name = "ResearchAgent"

\* an except clause that returns the bare prefix
run_agent_exceptBare(e) ==
  IF exceptException(e.cls)
  THEN [caught |-> TRUE, value |-> <<ERR_PREFIX>>]
  ELSE [caught |-> FALSE, value |-> <<>>]

\* `except Exception as e: return f"Error running agent: {str(e)}"`
run_agent_except(e) ==
  IF exceptException(e.cls)
  THEN [caught |-> TRUE, value |-> <<ERR_PREFIX>> \o e.msg]
  ELSE [caught |-> FALSE, value |-> <<>>]

\* -------------------------------------------------------------------- state
VARIABLES
  agents,           \* the module-level Agent objects, by variable name
  input_guardrail,  \* the module-level CustomGuardrail object
  agent,            \* agent[i]: the agent argument of invocation i
  query,            \* query[i]: the query argument of invocation i
  pc,               \* pc[i]: where run_agent stands in invocation i
  inflight,         \* inflight[i]: the backend call of i is awaited
  task,             \* task[i]: "running", "done" (returned), "cancelled"
  result,           \* result[i]: the str run_agent returned, once done
  raised,           \* raised[i]: the exception run_agent's try block raised
  validateCalls,    \* validateCalls[i]: evaluations of the rule's predicate
  genCalls,         \* genCalls[i]: calls of GeminiModel.generate
  sent,             \* sent[i]: the request generate handed to the backend
  reply,            \* reply[i]: the backend's outcome for that request
  gPrompt, gTools,  \* the arguments of a direct call of generate
  gPhase,           \* "off", "called", "sent", "done"
  gSent,            \* the text that call handed to the backend
  gOut              \* what that call returned or raised

shared == <<agents, input_guardrail>>
invVars == <<agent, query, pc, inflight, task, result, raised,
             validateCalls, genCalls, sent, reply>>
genVars == <<gPrompt, gTools, gPhase, gSent, gOut>>
vars == <<shared, invVars, genVars>>

Inv == 1..NumInv

NoRequest == [content |-> <<>>, max_output_tokens |-> 0, temperature |-> ""]
NoReply == [kind |-> "none", text |-> <<>>, msg |-> <<>>]
NoPrompt == [has_messages |-> FALSE, messages |-> <<>>]

InitShared ==
  /\ agents = AgentDefs
  /\ input_guardrail = InputGuardrail

InitInv ==
  /\ pc = [i \in Inv |-> "Pending"]
  /\ inflight = [i \in Inv |-> FALSE]
  /\ task = [i \in Inv |-> "running"]
  /\ result = [i \in Inv |-> <<>>]
  /\ raised = [i \in Inv |-> NoExc]
  /\ validateCalls = [i \in Inv |-> 0]
  /\ genCalls = [i \in Inv |-> 0]
  /\ sent = [i \in Inv |-> NoRequest]
  /\ reply = [i \in Inv |-> NoReply]

InitGenOff ==
  /\ gPrompt = NoPrompt
  /\ gTools = None
  /\ gPhase = "off"
  /\ gSent = <<>>
  /\ gOut = Return(<<>>)

\* every invocation is a call run_agent(agent, query) not yet started
Init ==
  /\ InitShared
  /\ agent \in [Inv -> AgentIds]
  /\ query \in [Inv -> Queries]
  /\ InitInv
  /\ InitGenOff

\* a coroutine that goes straight to the generation call
StartSkipGuardrail(i) ==
  /\ pc[i] = "Pending"
  /\ pc' = [pc EXCEPT ![i] = "Generating"]
  /\ UNCHANGED <<shared, agent, query, inflight, task, result, raised,
                 validateCalls, genCalls, sent, reply, genVars>>

\* the coroutine is started and enters the try block
Start(i) ==
  /\ pc[i] = "Pending"
  /\ pc' = [pc EXCEPT ![i] = "GuardrailCheck"]
  /\ UNCHANGED <<shared, agent, query, inflight, task, result, raised,
                 validateCalls, genCalls, sent, reply, genVars>>

\* an exception e leaves the try block of invocation i: the
\* except clause returns the error text, or e leaves run_agent
Leave(i, e) ==
  LET h == run_agent_except(e)
  IN /\ raised' = [raised EXCEPT ![i] = e]
     /\ IF h.caught
        THEN /\ pc' = [pc EXCEPT ![i] = "Failed"]
             /\ result' = [result EXCEPT ![i] = h.value]
             /\ task' = [task EXCEPT ![i] = "done"]
        ELSE /\ task' = [task EXCEPT ![i] =
                           IF e.cls = "CancelledError" THEN "cancelled"
                           ELSE "raised"]
             /\ UNCHANGED <<pc, result>>

\* lines 109-110: the guardrail, for the agent it applies to
GuardrailCheck(i) ==
  /\ pc[i] = "GuardrailCheck"
  /\ task[i] = "running"
  /\ LET a == agents[agent[i]]
         r == IF guardrailApplies(a) THEN apply(input_guardrail, query[i])
              ELSE Return(query[i])
     IN /\ validateCalls' = [validateCalls EXCEPT ![i] =
                               IF guardrailApplies(a) THEN @ + 1 ELSE @]
        /\ IF r.ok
           THEN /\ pc' = [pc EXCEPT ![i] = "Generating"]
                /\ UNCHANGED <<result, task, raised>>
           ELSE Leave(i, r.exc)
  /\ UNCHANGED <<shared, agent, query, inflight, genCalls, sent, reply,
                 genVars>>

\* a generate that empties the tools list it was handed: the list is the
\* agent's own
RunnerRunMutating(i) ==
  /\ pc[i] = "Generating"
  /\ task[i] = "running"
  /\ ~inflight[i]
  /\ LET a == agents[agent[i]]
         r == generate_request(build_conversation(a, query[i]), a.tools)
     IN /\ genCalls' = [genCalls EXCEPT ![i] = @ + 1]
        /\ agents' = [agents EXCEPT ![agent[i]].tools = List(<<>>)]
        /\ sent' = [sent EXCEPT ![i] =
                      [content |-> r.value,
                       max_output_tokens |-> a.model.max_tokens,
                       temperature |-> a.model.temperature]]
        /\ inflight' = [inflight EXCEPT ![i] = TRUE]
  /\ UNCHANGED <<input_guardrail, agent, query, pc, result, task, raised,
                 validateCalls, reply, genVars>>

\* line 111 up to the suspension: Runner.run builds the conversation and
\* calls the agent's model; generate hands the request to the backend
RunnerRun(i) ==
  /\ pc[i] = "Generating"
  /\ task[i] = "running"
  /\ ~inflight[i]
  /\ LET a == agents[agent[i]]
         r == generate_request(build_conversation(a, query[i]), a.tools)
     IN /\ genCalls' = [genCalls EXCEPT ![i] = @ + 1]
        /\ IF r.ok
           THEN /\ sent' = [sent EXCEPT ![i] =
                       [content |-> r.value,
                        max_output_tokens |-> a.model.max_tokens,
                        temperature |-> a.model.temperature]]
                /\ inflight' = [inflight EXCEPT ![i] = TRUE]
                /\ UNCHANGED <<pc, result, task, raised>>
           ELSE /\ Leave(i, r.exc)
                /\ UNCHANGED <<sent, inflight>>
  /\ UNCHANGED <<shared, agent, query, validateCalls, reply, genVars>>

\* a runner that calls the model once more after a backend failure
BackendReturnRetry(i) ==
  /\ pc[i] = "Generating"
  /\ task[i] = "running"
  /\ inflight[i]
  /\ \E o \in BackendOutcomes :
       LET r == generate_response(o)
       IN /\ reply' = [reply EXCEPT ![i] = o]
          /\ inflight' = [inflight EXCEPT ![i] = FALSE]
          /\ IF r.ok
             THEN /\ pc' = [pc EXCEPT ![i] = "Succeeded"]
                  /\ result' = [result EXCEPT ![i] = r.value]
                  /\ task' = [task EXCEPT ![i] = "done"]
                  /\ UNCHANGED raised
             ELSE IF genCalls[i] < 2
                  THEN UNCHANGED <<pc, result, task, raised>>
                  ELSE Leave(i, r.exc)
  /\ UNCHANGED <<shared, agent, query, validateCalls, genCalls, sent,
                 genVars>>

\* line 111 from the suspension on, then line 112 or lines 113-114: the
\* backend answers, generate returns or raises, run_agent returns
BackendReturn(i) ==
  /\ pc[i] = "Generating"
  /\ task[i] = "running"
  /\ inflight[i]
  /\ \E o \in BackendOutcomes :
       LET r == generate_response(o)
       IN /\ reply' = [reply EXCEPT ![i] = o]
          /\ inflight' = [inflight EXCEPT ![i] = FALSE]
          /\ IF r.ok
             THEN /\ pc' = [pc EXCEPT ![i] = "Succeeded"]
                  /\ result' = [result EXCEPT ![i] = r.value]
                  /\ task' = [task EXCEPT ![i] = "done"]
                  /\ UNCHANGED raised
             ELSE Leave(i, r.exc)
  /\ UNCHANGED <<shared, agent, query, validateCalls, genCalls, sent,
                 genVars>>

\* task.cancel() while the backend call is awaited: CancelledError is
\* thrown into run_agent at line 111
Cancel(i) ==
  /\ pc[i] = "Generating"
  /\ task[i] = "running"
  /\ inflight[i]
  /\ inflight' = [inflight EXCEPT ![i] = FALSE]
  /\ Leave(i, Exc("CancelledError", <<>>))
  /\ UNCHANGED <<shared, agent, query, validateCalls, genCalls, sent, reply,
                 genVars>>

Next ==
  \E i \in Inv :
    \/ Start(i)
    \/ GuardrailCheck(i)
    \/ RunnerRun(i)
    \/ BackendReturn(i)
    \/ Cancel(i)

Spec == Init /\ [][Next]_vars

\* ------------------------------------------- generate, called on its own
\* the prompts of a direct call: a dict without "messages", or one whose
\* "messages" holds up to MaxMessages dicts, with or without "content"
GenPrompts ==
  {NoPrompt} \cup
  {[has_messages |-> TRUE, messages |-> m] :
     m \in SeqsUpTo({EmptyDict} \cup {Message("user", q) : q \in Queries},
                    MaxMessages)}

GenInit ==
  /\ InitShared
  /\ agent = [i \in Inv |-> "weather_agent"]
  /\ query = [i \in Inv |-> <<>>]
  /\ InitInv
  /\ gPrompt \in GenPrompts
  /\ gTools \in ToolArgs
  /\ gPhase = "called"
  /\ gSent = <<>>
  /\ gOut = Return(<<>>)

\* lines 38-43: generate builds the text and hands it to the backend, or
\* fails before it does
GenerateCall ==
  /\ gPhase = "called"
  /\ LET r == generate_request(gPrompt, gTools)
     IN IF r.ok
        THEN /\ gSent' = r.value
             /\ gPhase' = "sent"
             /\ UNCHANGED gOut
        ELSE /\ gOut' = r
             /\ gPhase' = "done"
             /\ UNCHANGED gSent
  /\ UNCHANGED <<shared, invVars, gPrompt, gTools>>

\* lines 43-52: the backend answers and generate returns or raises
GenerateReturn ==
  /\ gPhase = "sent"
  /\ \E o \in BackendOutcomes : gOut' = generate_response(o)
  /\ gPhase' = "done"
  /\ UNCHANGED <<shared, invVars, gPrompt, gTools, gSent>>

GenNext == GenerateCall \/ GenerateReturn

GenSpec == GenInit /\ [][GenNext]_vars

\* ------------------------------------------------------------- properties
\* the invocation's agent is the one named "ResearchAgent"
IsResearch(i) == AgentDefs[agent[i]].name = "ResearchAgent"

\* the query holds no character but whitespace
Blank(q) == \A k \in 1..Len(q) : q[k] = " "

\* the one applicable rule of invocation i is false of its query
GuardrailFails(i) == IsResearch(i) /\ Blank(query[i])

Checked(i) == pc[i] \notin {"Pending", "GuardrailCheck"}
Terminal(i) == pc[i] \in {"Succeeded", "Failed"}

\* C1: when the applicable guardrail rule is false of the query, run_agent
\* ends Failed on the guardrail's ValueError (the GuardrailViolation), its
\* result is an error text, and generate is never called nor a request sent.
C1_GuardrailBlocksGeneration ==
  \A i \in Inv :
    GuardrailFails(i) =>
      /\ genCalls[i] = 0
      /\ sent[i] = NoRequest
      /\ pc[i] # "Generating"
      /\ Checked(i) =>
           /\ pc[i] = "Failed"
           /\ task[i] = "done"
           /\ raised[i].cls = "ValueError"
           /\ StartsWith(result[i], <<ERR_PREFIX>>)

C1_Witness ==
  \E i \in Inv :
    /\ GuardrailFails(i)
    /\ query[i] = <<" ">>
    /\ pc[i] = "Failed"
    /\ genCalls[i] = 0

C3_FailureDistinguishable ==
  \A i, j \in Inv :
    (pc[i] = "Succeeded" /\ pc[j] = "Failed") => result[i] # result[j]

\* C4: when the backend raises, run_agent ends Failed and its message holds
\* both the invoked agent's name and the backend's fault description.
C4_BackendErrorNamesAgent ==
  \A i \in Inv :
    reply[i].kind = "raise" =>
      /\ pc[i] = "Failed"
      /\ Contains(result[i], reply[i].msg)
      /\ Contains(result[i], <<AgentDefs[agent[i]].name>>)

\* the content of the prompt's last message, "" when it has none; the
\* prompt has no last message when its "messages" is the empty list
HasLast(prompt) == ~prompt.has_messages \/ prompt.messages # <<>>
LastText(prompt) ==
  IF prompt.has_messages /\ prompt.messages[Len(prompt.messages)].has_content
  THEN prompt.messages[Len(prompt.messages)].content
  ELSE <<>>

Own(i) == <<agent[i], query[i], pc[i], inflight[i], task[i], result[i],
            raised[i], validateCalls[i], genCalls[i], sent[i], reply[i]>>

\* C7: an invocation moves only Pending -> GuardrailCheck -> Generating ->
\* Succeeded or Failed (Failed also from GuardrailCheck); generate is called
\* only in Generating, after the guardrail check of that invocation; and an
\* invocation that is Succeeded or Failed changes no more.
C7_StateMachine ==
  [][\A i \in Inv :
       /\ pc'[i] # pc[i] =>
            <<pc[i], pc'[i]>> \in
              {<<"Pending", "GuardrailCheck">>,
               <<"GuardrailCheck", "Generating">>,
               <<"GuardrailCheck", "Failed">>,
               <<"Generating", "Succeeded">>,
               <<"Generating", "Failed">>}
       /\ genCalls'[i] # genCalls[i] =>
            /\ pc[i] = "Generating"
            /\ IsResearch(i) => validateCalls[i] = 1
       /\ Terminal(i) => Own(i)' = Own(i)]_vars

C7_Witness ==
  \E i \in Inv :
    /\ IsResearch(i)
    /\ pc[i] = "Succeeded"
    /\ validateCalls[i] = 1
    /\ genCalls[i] = 1

\* what run_agent(agent, query) returns when it runs alone and the backend's
\* outcome is o
SoloResult(id, q, o) ==
  IF AgentDefs[id].name = "ResearchAgent" /\ Blank(q)
  THEN <<ERR_PREFIX, EMPTY_MSG>>
  ELSE IF o.kind = "text" THEN o.text
       ELSE <<ERR_PREFIX, GEMINI_PREFIX>> \o o.msg

\* what generate sends for run_agent(agent, query) when it runs alone
SoloContent(id, q) ==
  q \o (IF AgentDefs[id].tools.items # <<>> THEN <<NOTE>> ELSE <<>>)

\* C8: under every interleaving the agents, their adapter configuration and
\* the guardrail stay as constructed, and every invocation sends and returns
\* what it would alone with the same agent, query and backend outcome.
C8_InterleavingIsolated ==
  /\ agents = AgentDefs
  /\ input_guardrail = InputGuardrail
  /\ \A i \in Inv :
       /\ sent[i] # NoRequest => sent[i].content = SoloContent(agent[i], query[i])
       /\ task[i] = "done" => result[i] = SoloResult(agent[i], query[i], reply[i])

C8_Witness ==
  \E i, j \in Inv :
    /\ i # j
    /\ agent[i] = agent[j]
    /\ agent[i] = "research_agent"
    /\ inflight[j]
    /\ pc[i] = "Succeeded"

\* C9: an invocation cancelled while its backend call is awaited returns
\* nothing, neither a response nor an error text: its task is cancelled, it
\* reaches neither Succeeded nor Failed, and from then on it evaluates no
\* guardrail, calls generate no more and changes no more.
C9_CancelLeavesNoResult ==
  [][\A i \in Inv :
       /\ raised'[i].cls = "CancelledError" =>
            /\ task'[i] = "cancelled"
            /\ ~Terminal(i)'
            /\ result'[i] = <<>>
            /\ reply'[i] = NoReply
       /\ raised[i].cls = "CancelledError" => Own(i)' = Own(i)]_vars

C9_Witness ==
  \E i \in Inv :
    /\ raised[i].cls = "CancelledError"
    /\ task[i] = "cancelled"
    /\ sent[i] # NoRequest
    /\ genCalls[i] = 1

\* C10: the guardrail's predicate is evaluated exactly for the agent named
\* "ResearchAgent"; an invocation of an agent of any other name never fails
\* on the guardrail, whatever its query, and has called generate by the time
\* it returns.
C10_GuardrailOnlyForResearchAgent ==
  \A i \in Inv :
    /\ Checked(i) => (validateCalls[i] = 1 <=> IsResearch(i))
    /\ ~Checked(i) => validateCalls[i] = 0
    /\ ~IsResearch(i) =>
         /\ raised[i].cls # "ValueError"
         /\ Terminal(i) => genCalls[i] = 1

C10_Witness ==
  \E i \in Inv :
    /\ agent[i] = "other_agent"
    /\ query[i] = <<" ">>
    /\ validateCalls[i] = 0
    /\ genCalls[i] = 1
    /\ pc[i] = "Succeeded"

====
